---- MODULE Spec2Model ----
(***************************************************************************)
(* Student recommendation platform: the intake page                        *)
(* (pages/Course_Recommendation.py) writes student profiles to the         *)
(* `students` collection, the dashboard page (Students_Dashboard.py) reads *)
(* the collection back and aggregates it.  Each browser session runs the   *)
(* page script on its own; the sessions share only the collection.         *)
(***************************************************************************)
EXTENDS FiniteSets, Integers, Sequences, TLC

VARIABLES
  students_collection,  \* the documents of the `students` collection, in store order
  pc,                   \* where each session's run of the intake page stands
  form,                 \* the widget values each session submitted last
  student_data,         \* run()'s local student_data of each session
  log,                  \* what each session's current run has done, in order
  startedNew,           \* history (SpecRace): the name was not stored when the run started
  unacked,              \* history (SpecSerial): a save that raised has changed the
                        \* name's document since the name's last successful save
  view                  \* what the dashboard page rendered last

vars == <<students_collection, pc, form, student_data, log, startedNew,
          unacked, view>>

(* Number of browser sessions submitting the intake form concurrently. *)
NumSessions == 2

Sessions == 1..NumSessions

(* Python's None for a dict-valued result; falsy like the empty dict. *)
None == <<>>

Truthy(d) == DOMAIN d # {}

(* ---------------- form inputs ---------------- *)

Names == {"", "alice", "bob"}

StoredNames == Names \ {""}

EducationLevels == {"Undergraduate", "Postgraduate"}

Marks == {50, 90}

SkillCatalog == {"Programming", "Cloud Computing"}

(* st.multiselect returns the selected options as a list without repeats. *)
Multiselect(catalog) ==
  {<<>>} \cup {<<a>> : a \in catalog}
         \cup {q \in {<<a, b>> : a \in catalog, b \in catalog} : q[1] # q[2]}

(* The widget values of one submitted form; widgets the model does not vary
   keep the value Streamlit gives an untouched widget. *)
widgets(name, edu, marks, skills) ==
  [name |-> name, email |-> "", phone |-> "", roll_no |-> "", age |-> 16,
   gender |-> "Select", current_education_level |-> edu,
   field_of_study |-> "Computer Science", previous_marks |-> marks,
   technical_skills |-> skills, learning_interests |-> <<>>]

(* Forms submitted to the intake page. *)
Forms ==
  {widgets(n, e, 50, <<"Programming">>) : n \in Names, e \in EducationLevels}

(* ---------------- the document store ---------------- *)

Range(f) == {f[i] : i \in DOMAIN f}

Last(q) == q[Len(q)]

Occurs(e, q) == \E i \in 1..Len(q) : q[i] = e

Before(e, q, i) == \E j \in 1..(i - 1) : q[j] = e

Matching(coll, name) == {i \in 1..Len(coll) : coll[i]["name"] = name}

Min(S) == CHOOSE m \in S : \A k \in S : m <= k

(* Mutant of SetFields: the stored document's fields win ($setOnInsert). *)
SetFields_keep_stored(doc, fields) ==
  [f \in DOMAIN doc \cup DOMAIN fields |->
     IF f \in DOMAIN doc THEN doc[f] ELSE fields[f]]

(* $set: every field of `fields` is written over the document, the
   document's other fields stay. *)
SetFields(doc, fields) ==
  [f \in DOMAIN doc \cup DOMAIN fields |->
     IF f \in DOMAIN fields THEN fields[f] ELSE doc[f]]

(* Mutant of insert_one: the unique index on name is missing. *)
insert_one_no_index(coll, doc) ==
  [coll |-> Append(coll, ("_id" :> (Len(coll) + 1)) @@ doc),
   raised |-> "", upserted_id |-> Len(coll) + 1]

(* Insert under the unique index on name: a second document with a stored
   name raises DuplicateKeyError and leaves the collection alone. *)
insert_one(coll, doc) ==
  IF Matching(coll, doc["name"]) # {}
  THEN [coll |-> coll, raised |-> "DuplicateKeyError", upserted_id |-> 0]
  ELSE [coll |-> Append(coll, ("_id" :> (Len(coll) + 1)) @@ doc),
        raised |-> "", upserted_id |-> Len(coll) + 1]

(* Mutant of update_one: a plain insert, no filter and no index check. *)
update_one_always_insert(coll, name, fields) ==
  [coll |-> Append(coll, ("_id" :> (Len(coll) + 1)) @@ fields),
   raised |-> "", matched_count |-> 0, modified_count |-> 0,
   upserted_id |-> Len(coll) + 1]

(* update_one({"name": name}, {"$set": fields}, upsert=True) on the
   collection as it stands when the store carries the whole call out at
   once: the first matching document is updated, or, with none, the document
   is inserted.  upserted_id is 0 for Python's None. *)
update_one(coll, name, fields) ==
  IF Matching(coll, name) # {}
  THEN LET i == Min(Matching(coll, name))
           d == SetFields(coll[i], fields)
       IN [coll |-> [coll EXCEPT ![i] = d], raised |-> "",
           matched_count |-> 1,
           modified_count |-> IF d = coll[i] THEN 0 ELSE 1,
           upserted_id |-> 0]
  ELSE LET r == insert_one(coll, SetFields([name |-> name], fields))
       IN [coll |-> r.coll, raised |-> r.raised, matched_count |-> 0,
           modified_count |-> 0, upserted_id |-> r.upserted_id]

(* ---------------- intake page ---------------- *)

(* Mutant of collect_student_details: the required-name check is missing. *)
collect_student_details_unchecked(w) ==
  [name |-> w.name, email |-> w.email, phone |-> w.phone,
   roll_no |-> w.roll_no, age |-> w.age, gender |-> w.gender,
   education_level |-> w.current_education_level,
   field_of_study |-> w.field_of_study,
   previous_marks |-> w.previous_marks,
   technical_skills |-> w.technical_skills,
   learning_interests |-> w.learning_interests]

(* The body of `if submit_button:`: None for an empty name, else the dict. *)
collect_student_details(w) ==
  IF w.name = ""
  THEN None
  ELSE [name |-> w.name, email |-> w.email, phone |-> w.phone,
        roll_no |-> w.roll_no, age |-> w.age, gender |-> w.gender,
        education_level |-> w.current_education_level,
        field_of_study |-> w.field_of_study,
        previous_marks |-> w.previous_marks,
        technical_skills |-> w.technical_skills,
        learning_interests |-> w.learning_interests]

(* What one run of the page has done so far, in order. *)
EvValidate == "collect_student_details"
EvNameRequired == "st.error: Full Name is required"
EvAnalysis == "generate_content"
EvAnalysisFailed == "generate_content raised"
EvShowAnalysis == "st.write: Profile Analysis"
EvShowCourses == "st.write: Recommended Courses"
EvUpsert == "update_one"
EvUpsertFailed == "update_one raised"
EvCreated == "st.success: New student profile created"
EvUpdated == "st.info: Profile updated"
EvDuplicate == "st.error: A profile with the name already exists"
EvSaveError == "st.error: An error occurred while saving the profile"

(* A run of the page is over: the session can submit again. *)
Finished == {"idle", "done", "raised"}

(* run() up to the first external call: collect the form, stop if the
   result is falsy, else go on to the analysis. *)
run_collect(s, w) ==
  /\ pc[s] \in Finished
  /\ LET d == collect_student_details(w) IN
       /\ form' = [form EXCEPT ![s] = w]
       /\ student_data' = [student_data EXCEPT ![s] = d]
       /\ IF Truthy(d)
          THEN /\ pc' = [pc EXCEPT ![s] = "analyze"]
               /\ log' = [log EXCEPT ![s] = <<EvValidate>>]
          ELSE /\ pc' = [pc EXCEPT ![s] = "done"]
               /\ log' = [log EXCEPT ![s] = <<EvValidate, EvNameRequired>>]
  /\ UNCHANGED <<students_collection, unacked, view>>

(* Mutant of analyze_student_profile: the results are shown after the save
   instead of before it. *)
analyze_then_save_first(s) ==
  /\ pc[s] = "analyze"
  /\ pc' = [pc EXCEPT ![s] = "save"]
  /\ log' = [log EXCEPT ![s] = Append(@, EvAnalysis)]
  /\ UNCHANGED <<students_collection, form, student_data, startedNew,
                 unacked, view>>

(* analyze_student_profile and the display that follows it in run(): the
   language-model call returns a text, or raises; nothing in
   analyze_student_profile or run() catches what it raises. *)
analyze_student_profile(s) ==
  /\ pc[s] = "analyze"
  /\ \E ok \in BOOLEAN :
       IF ok
       THEN /\ pc' = [pc EXCEPT ![s] = "save"]
            /\ log' = [log EXCEPT ![s] =
                         @ \o <<EvAnalysis, EvShowAnalysis, EvShowCourses>>]
       ELSE /\ pc' = [pc EXCEPT ![s] = "raised"]
            /\ log' = [log EXCEPT ![s] = Append(@, EvAnalysisFailed)]
  /\ UNCHANGED <<students_collection, form, student_data, startedNew,
                 unacked, view>>

(* Mutant of save_feedback: decided by modified_count. *)
save_feedback_by_modified(result) ==
  IF result.modified_count = 0 THEN EvCreated ELSE EvUpdated

(* The feedback chosen from update_one's result: upserted_id is set exactly
   when the upsert inserted. *)
save_feedback(result) ==
  IF result.upserted_id # 0 THEN EvCreated ELSE EvUpdated

(* What the store call can do: return; raise before it writes (the
   connection is lost on the way); raise after the server applied the write
   (a write concern or network error on the way back). *)
StoreOutcomes == {"returns", "raises", "writes then raises"}

(* What the store does when the insert of an upsert meets a document of the
   same name that another upsert stored after this one's lookup: it runs the
   upsert again, now as an update, or it answers DuplicateKeyError. *)
RaceOutcomes == {"retries as update", "raises DuplicateKeyError"}

(* A run's save is under way. *)
Saving == {"save", "upserting"}

(* The end of save_student_data in session s: the collection the store call
   leaves and what the try block or its except branches show. *)
save_returns(s, coll, shown) ==
  /\ students_collection' = coll
  /\ log' = [log EXCEPT ![s] = @ \o shown]
  /\ pc' = [pc EXCEPT ![s] = "done"]

(* Mutant of save_student_data: what the store call raises is not caught. *)
save_uncaught(s) ==
  /\ pc[s] = "save"
  /\ \E outcome \in StoreOutcomes :
       LET d == student_data[s]
           r == update_one(students_collection, d["name"], d)
       IN IF outcome = "raises"
          THEN /\ log' = [log EXCEPT ![s] = Append(@, EvUpsertFailed)]
               /\ pc' = [pc EXCEPT ![s] = "raised"]
               /\ UNCHANGED students_collection
          ELSE IF outcome = "writes then raises"
          THEN /\ students_collection' = r.coll
               /\ log' = [log EXCEPT ![s] = Append(@, EvUpsertFailed)]
               /\ pc' = [pc EXCEPT ![s] = "raised"]
          ELSE /\ students_collection' = r.coll
               /\ log' = [log EXCEPT ![s] = @ \o <<EvUpsert, save_feedback(r)>>]
               /\ pc' = [pc EXCEPT ![s] = "done"]
  /\ UNCHANGED <<form, student_data, startedNew, view>>

(* save_student_data: the upsert and the message chosen from its result;
   whatever update_one raises is caught and shown, also when the write has
   been applied by then.  The store carries an upsert out in two steps when
   its lookup finds no document of the name: the lookup, then the insert
   under the unique index, and another session's write can come between
   them. *)
save_student_data(s) ==
  LET d == student_data[s]
      n == d["name"]
      failed == <<EvUpsertFailed, EvSaveError>>
  IN
  /\ \/ /\ pc[s] = "save"
        /\ \E outcome \in StoreOutcomes :
             IF outcome = "raises"
             THEN save_returns(s, students_collection, failed)
             ELSE IF Matching(students_collection, n) = {}
             THEN /\ pc' = [pc EXCEPT ![s] = "upserting"]
                  /\ UNCHANGED <<students_collection, log>>
             ELSE LET r == update_one(students_collection, n, d) IN
                  save_returns(s, r.coll,
                               IF outcome = "returns"
                               THEN <<EvUpsert, save_feedback(r)>> ELSE failed)
     \/ /\ pc[s] = "upserting"
        /\ \E outcome \in StoreOutcomes :
             LET r == insert_one(students_collection,
                                 SetFields([name |-> n], d))
                 inserted == [matched_count |-> 0, modified_count |-> 0,
                              upserted_id |-> r.upserted_id]
                 u == update_one(students_collection, n, d)
             IN IF outcome = "raises"
                THEN save_returns(s, students_collection, failed)
                ELSE IF r.raised = ""
                THEN save_returns(s, r.coll,
                                  IF outcome = "returns"
                                  THEN <<EvUpsert, save_feedback(inserted)>>
                                  ELSE failed)
                ELSE \E race \in RaceOutcomes :
                       IF race = "raises DuplicateKeyError"
                       THEN save_returns(s, students_collection,
                                         <<EvUpsertFailed, EvDuplicate>>)
                       ELSE save_returns(s, u.coll,
                                         IF outcome = "returns"
                                         THEN <<EvUpsert, save_feedback(u)>>
                                         ELSE failed)
  /\ UNCHANGED <<form, student_data, startedNew, view>>

(* ---------------- dashboard page ---------------- *)

Drop(doc, field) == [f \in DOMAIN doc \ {field} |-> doc[f]]

(* get_students_dataframe: one row per document of find(), the `_id` column
   dropped; the empty frame for an empty collection. *)
get_students_dataframe(coll) ==
  IF Len(coll) > 0 THEN [i \in 1..Len(coll) |-> Drop(coll[i], "_id")] ELSE <<>>

Columns(df) == UNION {DOMAIN df[i] : i \in 1..Len(df)}

(* Mutant of empty: the empty-frame check never fires. *)
empty_never(df) == FALSE

(* DataFrame.empty: some axis has length 0. *)
empty(df) == Len(df) = 0 \/ Columns(df) = {}

Column(df, c) == [i \in 1..Len(df) |-> df[i][c]]

(* Series.value_counts as the mapping value -> number of occurrences (the
   order of the result, by descending count, is not modelled). *)
value_counts(series) ==
  [v \in Range(series) |->
     Cardinality({i \in 1..Len(series) : series[i] = v})]

(* Mutant of Flatten: only the first element of each list is taken. *)
Flatten_first_only(lists) ==
  [i \in 1..Len(SelectSeq(lists, LAMBDA l : l # <<>>)) |->
     Head(SelectSeq(lists, LAMBDA l : l # <<>>)[i])]

(* [x for xs in lists for x in xs] *)
RECURSIVE Flatten(_)
Flatten(lists) ==
  IF lists = <<>> THEN <<>> ELSE Head(lists) \o Flatten(Tail(lists))

RECURSIVE SumSeq(_)
SumSeq(q) == IF q = <<>> THEN 0 ELSE Head(q) + SumSeq(Tail(q))

SelectRows(df, c, v) == SelectSeq(df, LAMBDA row : row[c] = v)

(* df.groupby(key)[val].mean(), each mean kept as the fraction sum/count. *)
groupby_mean(df, key, val) ==
  [g \in Range(Column(df, key)) |->
     [sum |-> SumSeq(Column(SelectRows(df, key, g), val)),
      count |-> Len(SelectRows(df, key, g))]]

ChartColumns ==
  {"education_level", "field_of_study", "previous_marks", "technical_skills",
   "learning_interests"}

(* What render_dashboard shows for a frame: the warning alone for an empty
   frame, else every aggregate; indexing a column the frame lacks raises
   KeyError. *)
dashboard_view(df) ==
  IF empty(df)
  THEN [state |-> "no data", warning |-> "No student data available."]
  ELSE IF ~(ChartColumns \subseteq Columns(df))
  THEN [state |-> "KeyError"]
  ELSE [state |-> "charts",
        education_counts |-> value_counts(Column(df, "education_level")),
        field_counts |-> value_counts(Column(df, "field_of_study")),
        marks |-> Column(df, "previous_marks"),
        avg_marks |-> groupby_mean(df, "education_level", "previous_marks"),
        skill_counts |->
          value_counts(Flatten(Column(df, "technical_skills"))),
        interest_counts |->
          value_counts(Flatten(Column(df, "learning_interests"))),
        table |-> df]

render_dashboard ==
  /\ view' = dashboard_view(get_students_dataframe(students_collection))
  /\ UNCHANGED <<students_collection, pc, form, student_data, log,
                 startedNew, unacked>>

(* ---------------- specifications ---------------- *)

NotRendered == [state |-> "not rendered"]

Init ==
  /\ students_collection = <<>>
  /\ pc = [s \in Sessions |-> "idle"]
  /\ form = [s \in Sessions |-> None]
  /\ student_data = [s \in Sessions |-> None]
  /\ log = [s \in Sessions |-> <<>>]
  /\ startedNew = [s \in Sessions |-> FALSE]
  /\ unacked = [n \in StoredNames |-> FALSE]
  /\ view = NotRendered

submit(s, w) == run_collect(s, w) /\ UNCHANGED startedNew

save(s) == save_student_data(s) /\ UNCHANGED unacked

Next ==
  \/ \E s \in Sessions : \E w \in Forms : submit(s, w)
  \/ \E s \in Sessions : analyze_student_profile(s)
  \/ \E s \in Sessions : save(s)

(* The intake page, any number of submissions by concurrent sessions. *)
Spec == Init /\ [][Next]_vars

(* Submissions for one name, with the history of which runs started while
   the name was not stored yet. *)
RaceForms == {w \in Forms : w.name = "alice"}

submit_tracked(s, w) ==
  /\ run_collect(s, w)
  /\ startedNew' = [startedNew EXCEPT ![s] =
                      Matching(students_collection, w.name) = {}]

NextRace ==
  \/ \E s \in Sessions : \E w \in RaceForms : submit_tracked(s, w)
  \/ \E s \in Sessions : analyze_student_profile(s)
  \/ \E s \in Sessions : save(s)

SpecRace == Init /\ [][NextRace]_vars

(* One session submitting form after form, with the history of which names
   hold a document changed by a save that raised. *)
Serial == Min(Sessions)

save_tracked(s) ==
  /\ save_student_data(s)
  /\ unacked' =
       [n \in StoredNames |->
          IF n # student_data[s]["name"] THEN unacked[n]
          ELSE IF Occurs(EvUpsert, log'[s]) THEN FALSE
          ELSE unacked[n] \/ students_collection' # students_collection]

NextSerial ==
  \/ \E w \in Forms : submit(Serial, w)
  \/ analyze_student_profile(Serial)
  \/ save_tracked(Serial)

SpecSerial == Init /\ [][NextSerial]_vars

(* The dashboard page over every collection the intake page can leave:
   documents of distinct names, _id in insertion order. *)
Documents(id) ==
  {("_id" :> id) @@ collect_student_details(widgets(n, e, m, sk)) :
     n \in StoredNames, e \in EducationLevels, m \in Marks,
     sk \in Multiselect(SkillCatalog)}

Collections ==
  {<<>>} \cup {<<d>> : d \in Documents(1)}
         \cup {c \in {<<d1, d2>> : d1 \in Documents(1), d2 \in Documents(2)} :
                 c[1]["name"] # c[2]["name"]}

InitDashboard ==
  /\ students_collection \in Collections
  /\ pc = [s \in Sessions |-> "idle"]
  /\ form = [s \in Sessions |-> None]
  /\ student_data = [s \in Sessions |-> None]
  /\ log = [s \in Sessions |-> <<>>]
  /\ startedNew = [s \in Sessions |-> FALSE]
  /\ unacked = [n \in StoredNames |-> FALSE]
  /\ view = NotRendered

NextDashboard == render_dashboard

SpecDashboard == InitDashboard /\ [][NextDashboard]_vars

(* ---------------- properties ---------------- *)

(* Session s took a step of its run. *)
Stepped(s) == pc'[s] # pc[s] \/ log'[s] # log[s]

(* C1: the students collection holds at most one document per distinct
   name, whatever forms were submitted. *)
C1_UniqueName ==
  \A i, j \in 1..Len(students_collection) :
    students_collection[i]["name"] = students_collection[j]["name"] => i = j

(* A second write for a stored name has happened next to another document. *)
C1_Witness ==
  /\ Len(students_collection) = 2
  /\ \E s \in Sessions : pc[s] = "done" /\ Last(log[s]) = EvUpdated

(* C2: after a successful save of a profile the frame the dashboard loads
   has exactly one row of the profile's name, equal to the profile in every
   field, and the rows of the other names are as before; a save of the
   profile already stored leaves the frame as it was. *)
C2_LastWriteWins ==
  [][\A s \in Sessions :
       (pc[s] \in Saving /\ Occurs(EvUpsert, log'[s])) =>
         LET d == student_data[s]
             df == get_students_dataframe(students_collection)
             after == get_students_dataframe(students_collection')
             Others(f) == {f[i] : i \in {j \in 1..Len(f) : f[j]["name"] # d["name"]}}
         IN /\ Cardinality({i \in 1..Len(after) : after[i]["name"] = d["name"]}) = 1
            /\ \A i \in 1..Len(after) : after[i]["name"] = d["name"] => after[i] = d
            /\ Others(after) = Others(df)
            /\ d \in Range(df) => after = df]_vars

(* One session created a profile, another replaced it with other fields,
   next to a document of another name. *)
C2_Witness ==
  \E s, t \in Sessions :
    /\ pc[s] = "done" /\ Last(log[s]) = EvCreated
    /\ pc[t] = "done" /\ Last(log[t]) = EvUpdated
    /\ student_data[s]["name"] = student_data[t]["name"]
    /\ student_data[s] # student_data[t]
    /\ student_data[t] \in Range(get_students_dataframe(students_collection))
    /\ Len(students_collection) = 2

(* C3: a submission with an empty name shows "Full Name is required",
   yields None, writes nothing to the collection, and its run reaches
   neither the analysis nor the save. *)
C3_EmptyNameRejected ==
  [][\A s \in Sessions :
       (form'[s] # None /\ form'[s].name = "" /\ Stepped(s)) =>
         /\ students_collection' = students_collection
         /\ ~Truthy(student_data'[s])
         /\ log'[s] = <<EvValidate, EvNameRequired>>
         /\ pc'[s] = "done"]_vars

(* An empty-name form was rejected while the collection held a document. *)
C3_Witness ==
  \E s \in Sessions :
    /\ form[s] # None /\ form[s].name = ""
    /\ log[s] = <<EvValidate, EvNameRequired>>
    /\ Len(students_collection) > 0

(* C4 as claimed: a save of a run that started while its name was not
   stored never reports a duplicate key, and when its write succeeds the
   collection holds exactly one document of that name, with the fields of
   that submission; so two racing submissions of a new name leave one
   document holding the fields of the one that wrote last, and neither is
   told of a duplicate key. *)
C4_RaceFree ==
  [][\A s \in Sessions :
       (startedNew[s] /\ pc'[s] = "done" /\ log'[s] # log[s]) =>
         LET n == student_data[s]["name"] IN
         /\ ~Occurs(EvDuplicate, log'[s])
         /\ Occurs(EvUpsert, log'[s]) =>
              /\ Cardinality(Matching(students_collection', n)) = 1
              /\ \A i \in Matching(students_collection', n) :
                   Drop(students_collection'[i], "_id") = student_data[s]]_vars

(* C4 amended: under every interleaving of racing submissions of a name the
   collection never holds two documents of it.  A save that succeeds leaves
   exactly one document of the name, with the fields of its submission.  A
   save can end with the duplicate-key message, but only in a run that
   started while the name was not stored and whose insert met the document
   another submission stored meanwhile: it then writes nothing and that one
   document stays as it is. *)
C4_RaceContained ==
  [][\A s \in Sessions :
       (pc[s] \in Saving /\ pc'[s] = "done") =>
         LET n == student_data[s]["name"] IN
         /\ Cardinality(Matching(students_collection', n)) <= 1
         /\ Occurs(EvUpsert, log'[s]) =>
              /\ Cardinality(Matching(students_collection', n)) = 1
              /\ \A i \in Matching(students_collection', n) :
                   Drop(students_collection'[i], "_id") = student_data[s]
         /\ Occurs(EvDuplicate, log'[s]) =>
              /\ startedNew[s]
              /\ pc[s] = "upserting"
              /\ students_collection' = students_collection
              /\ Cardinality(Matching(students_collection', n)) = 1]_vars

(* Two runs that both started before the name was stored, with different
   fields: one created the document, the other was told of the duplicate
   key, and the one document holds the fields of the first. *)
C4_Witness ==
  \E s, t \in Sessions :
    /\ startedNew[s] /\ startedNew[t]
    /\ pc[s] = "done" /\ Last(log[s]) = EvCreated
    /\ pc[t] = "done" /\ Last(log[t]) = EvDuplicate
    /\ student_data[s]["name"] = student_data[t]["name"]
    /\ student_data[s] # student_data[t]
    /\ Cardinality(Matching(students_collection, student_data[t]["name"])) = 1
    /\ \A i \in Matching(students_collection, student_data[s]["name"]) :
         Drop(students_collection[i], "_id") = student_data[s]

(* C5: a failure of the language-model call is caught within the request:
   it does not leave run(), and the run ends with an error message. *)
C5_AnalysisFailureCaught ==
  \A s \in Sessions :
    Occurs(EvAnalysisFailed, log[s]) =>
      pc[s] # "raised" /\ Last(log[s]) # EvAnalysisFailed

(* C6 as claimed: when the store write raises, save_student_data shows an
   error and returns normally, the collection is as before the call, and
   the session can submit again. *)
C6_StoreFailureCaught ==
  [][\A s \in Sessions :
       (pc[s] \in Saving /\ Occurs(EvUpsertFailed, log'[s])) =>
         /\ students_collection' = students_collection
         /\ Last(log'[s]) \in {EvSaveError, EvDuplicate}
         /\ pc'[s] = "done"]_vars

(* C6 amended: when the store write raises, save_student_data shows an
   error and returns normally, and the session can submit again; the
   collection is as before the call, or as the upsert of the submitted
   profile leaves it when the store had applied the write before it raised. *)
C6_StoreFailureContained ==
  [][\A s \in Sessions :
       (pc[s] \in Saving /\ Occurs(EvUpsertFailed, log'[s])) =>
         LET d == student_data[s] IN
         /\ \/ students_collection' = students_collection
            \/ students_collection' =
                 update_one(students_collection, d["name"], d).coll
         /\ Last(log'[s]) \in {EvSaveError, EvDuplicate}
         /\ pc'[s] = "done"
         /\ pc'[s] \in Finished]_vars

(* A save raised after its write was applied: the stored document of the
   name holds the submitted fields, written by no successful save, next to
   a document of another name. *)
C6_Witness ==
  LET d == student_data[Serial] IN
  /\ pc[Serial] = "done" /\ Last(log[Serial]) = EvSaveError
  /\ unacked[d["name"]]
  /\ d \in Range(get_students_dataframe(students_collection))
  /\ Len(students_collection) = 2

(* C7: a successful save reports "created" exactly when no document of the
   name was stored immediately before the write, "updated" exactly when one
   was, also when the stored document has the same fields. *)
C7_Feedback ==
  [][\A s \in Sessions :
       (pc[s] \in Saving /\ Occurs(EvUpsert, log'[s])) =>
         LET stored == Matching(students_collection, student_data[s]["name"]) # {}
         IN /\ Last(log'[s]) \in {EvCreated, EvUpdated}
            /\ Last(log'[s]) = EvCreated <=> ~stored
            /\ Last(log'[s]) = EvUpdated <=> stored]_vars

(* A profile was created by one session and resubmitted with the same
   fields by another, which was told "updated". *)
C7_Witness ==
  \E s, t \in Sessions :
    /\ pc[s] = "done" /\ Last(log[s]) = EvCreated
    /\ pc[t] = "done" /\ Last(log[t]) = EvUpdated
    /\ student_data[s] = student_data[t]

(* C8: the dashboard over an empty collection shows the "no data" warning
   and nothing else: no aggregate is computed and nothing is raised. *)
C8_EmptyDashboard ==
  (view # NotRendered /\ students_collection = <<>>) =>
    view = [state |-> "no data", warning |-> "No student data available."]

C8_Witness ==
  students_collection = <<>> /\ view.state = "no data"

(* C9: over a non-empty collection the skill counts map each tag to the
   number of stored profiles whose technical_skills contains it, tags of no
   profile are absent, and the counts add up to the number of tags of all
   profiles. *)
C9_SkillCounts ==
  (view # NotRendered /\ Len(students_collection) > 0) =>
    /\ view.state = "charts"
    /\ LET Has(t) == {i \in 1..Len(students_collection) :
                        t \in Range(students_collection[i]["technical_skills"])}
           sc == view.skill_counts
           tags == DOMAIN sc
       IN /\ tags = {t \in SkillCatalog : Has(t) # {}}
          /\ \A t \in tags : sc[t] = Cardinality(Has(t))
          /\ LET RECURSIVE Total(_)
                 Total(T) == IF T = {} THEN 0
                             ELSE LET t == CHOOSE x \in T : TRUE
                                  IN sc[t] + Total(T \ {t})
             IN Total(tags) =
                  SumSeq([i \in 1..Len(students_collection) |->
                            Len(students_collection[i]["technical_skills"])])

(* Two profiles with skills [Programming, Cloud Computing] and
   [Programming]: Programming = 2, Cloud Computing = 1. *)
C9_Witness ==
  /\ view.state = "charts"
  /\ Len(students_collection) = 2
  /\ students_collection[1]["technical_skills"] =
       <<"Programming", "Cloud Computing">>
  /\ students_collection[2]["technical_skills"] = <<"Programming">>
  /\ view.skill_counts["Programming"] = 2
  /\ view.skill_counts["Cloud Computing"] = 1

(* C10 as claimed: the results are displayed only after the upsert. *)
C10_DisplayAfterUpsert ==
  \A s \in Sessions : \A i \in 1..Len(log[s]) :
    log[s][i] \in {EvShowAnalysis, EvShowCourses} =>
      Before(EvUpsert, log[s], i)

(* C10 amended: validate, then the language-model call, then the display of
   the analysis and the courses, then the upsert, then the save's message. *)
C10_PipelineOrder ==
  \A s \in Sessions : \A i \in 1..Len(log[s]) :
    LET e == log[s][i] IN
    /\ e = EvValidate => i = 1
    /\ e \in {EvAnalysis, EvAnalysisFailed} => Before(EvValidate, log[s], i)
    /\ e = EvShowAnalysis => Before(EvAnalysis, log[s], i)
    /\ e = EvShowCourses => Before(EvShowAnalysis, log[s], i)
    /\ e \in {EvUpsert, EvUpsertFailed} =>
         Before(EvAnalysis, log[s], i) /\ Before(EvShowCourses, log[s], i)
    /\ e \in {EvCreated, EvUpdated} => Before(EvUpsert, log[s], i) /\ i = Len(log[s])
    /\ e \in {EvSaveError, EvDuplicate} => Before(EvUpsertFailed, log[s], i)

C10_Witness ==
  \E s \in Sessions :
    log[s] = <<EvValidate, EvAnalysis, EvShowAnalysis, EvShowCourses,
               EvUpsert, EvCreated>>

====
